---- MODULE Spec2Model ----
(***************************************************************************)
(* A model of the logic-circuit store and its validator                    *)
(* (src/src/components/mod.rs).  A Circuit is a directed multigraph of     *)
(* named, typed components; validate scans the components in insertion     *)
(* order and collects every naming and arity violation.                    *)
(***************************************************************************)
EXTENDS Bags, FiniteSets, Integers, Sequences, TLC

\* ------------------------------------------------------------------ bounds
\* The largest number of components a modelled circuit holds.
MaxComponents == 2
\* The largest number of connections a modelled circuit holds.
MaxConnections == 2

\* ------------------------------------------------------------- data types
\* enum ComponentKind
ComponentKind == {"Input", "Output", "Not", "And", "Or"}

\* enum ConnectionDirection
ConnectionDirection == {"Input", "Output"}

\* enum ValidationErrorKind
ValidationErrorKind == {"IncorrectInputs", "IncorrectOutputs", "DuplicateName"}

\* The component names the callers of the model pass to add_component.
Names == {"A", "B"}

\* struct ComponentData { kind, name }
ComponentData(kind, name) == [kind |-> kind, name |-> name]

\* struct Component { index }: the handle handed back to the caller.
Component(index) == [index |-> index]

\* ValidationError::new(kind, component).  The field `index` is an auxiliary
\* annotation that records the loop variable `index` of validate at the
\* moment of the push; the program's error carries only kind and component.
ValidationError(kind, component, index) ==
    [kind |-> kind, component |-> component, index |-> index]

\* Result values.
Unit == [tag |-> "unit"]
Ok == [tag |-> "Ok"]
Err(e) == [tag |-> "Err", errors |-> e]

\* -------------------------------------------------------- kind rule table
\* required_inputs with the Input row carrying the Output row's rule.
required_inputs_input_as_output(kind) ==
    CASE kind = "Input"  -> <<"Less", 2>>
      [] kind = "Output" -> <<"Less", 2>>
      [] kind = "Not"    -> <<"Equal", 1>>
      [] kind = "And"    -> <<"Greater", 1>>
      [] kind = "Or"     -> <<"Greater", 1>>

\* required_inputs with an Output that demands exactly one driver.
required_inputs_output_exactly_one(kind) ==
    CASE kind = "Input"  -> <<"Equal", 0>>
      [] kind = "Output" -> <<"Equal", 1>>
      [] kind = "Not"    -> <<"Equal", 1>>
      [] kind = "And"    -> <<"Greater", 1>>
      [] kind = "Or"     -> <<"Greater", 1>>

\* ComponentKind::required_inputs: (Ordering, threshold)
required_inputs(kind) ==
    CASE kind = "Input"  -> <<"Equal", 0>>
      [] kind = "Output" -> <<"Less", 2>>
      [] kind = "Not"    -> <<"Equal", 1>>
      [] kind = "And"    -> <<"Greater", 1>>
      [] kind = "Or"     -> <<"Greater", 1>>

\* required_outputs with a Not that may fan out ("1 or more").
required_outputs_not_fans_out(kind) ==
    CASE kind = "Input"  -> <<"Greater", -1>>
      [] kind = "Output" -> <<"Equal", 0>>
      [] kind = "Not"    -> <<"Greater", 0>>
      [] kind = "And"    -> <<"Greater", 1>>
      [] kind = "Or"     -> <<"Greater", 1>>

\* ComponentKind::required_outputs: (Ordering, threshold)
required_outputs(kind) ==
    CASE kind = "Input"  -> <<"Greater", -1>>
      [] kind = "Output" -> <<"Equal", 0>>
      [] kind = "Not"    -> <<"Equal", 1>>
      [] kind = "And"    -> <<"Greater", 1>>
      [] kind = "Or"     -> <<"Greater", 1>>

\* ComponentKind::required_connections
required_connections(kind, direction) ==
    CASE direction = "Input"  -> required_inputs(kind)
      [] direction = "Output" -> required_outputs(kind)

\* ------------------------------------------------------------ graph store
\* The number of entries of the bag of edges that satisfy a test on the
\* endpoints: petgraph's edges_directed(index, dir).count().
RECURSIVE SumCopies(_, _)
SumCopies(bag, elems) ==
    IF elems = {} THEN 0
    ELSE LET e == CHOOSE x \in elems : TRUE
         IN CopiesIn(e, bag) + SumCopies(bag, elems \ {e})

\* count_connections that counts each pair of endpoints once.
count_connections_dedup(g_edges, index, direction) ==
    CASE direction = "Input" ->
            Cardinality({e \in BagToSet(g_edges) : e[2] = index})
      [] direction = "Output" ->
            Cardinality({e \in BagToSet(g_edges) : e[1] = index})

\* Circuit::count_connections(index, direction)
count_connections(g_edges, index, direction) ==
    CASE direction = "Input" ->
            SumCopies(g_edges, {e \in BagToSet(g_edges) : e[2] = index})
      [] direction = "Output" ->
            SumCopies(g_edges, {e \in BagToSet(g_edges) : e[1] = index})

\* validate_component_connections that rejects a component wired to itself.
validate_component_connections_no_self_loop(g_edges, index, kind, direction) ==
    LET connections == count_connections(g_edges, index, direction)
        req == required_connections(kind, direction)
        x == req[2]
        satisfied == CASE req[1] = "Equal"   -> connections = x
                       [] req[1] = "Greater" -> connections > x
                       [] req[1] = "Less"    -> connections < x
    IN IF satisfied /\ CopiesIn(<<index, index>>, g_edges) = 0 THEN Ok
       ELSE CASE direction = "Input"  -> [tag |-> "Err", error |-> "IncorrectInputs"]
              [] direction = "Output" -> [tag |-> "Err", error |-> "IncorrectOutputs"]

\* Circuit::validate_component_connections(index, kind, direction)
validate_component_connections(g_edges, index, kind, direction) ==
    LET connections == count_connections(g_edges, index, direction)
        req == required_connections(kind, direction)
        x == req[2]
        satisfied == CASE req[1] = "Equal"   -> connections = x
                       [] req[1] = "Greater" -> connections > x
                       [] req[1] = "Less"    -> connections < x
    IN IF satisfied THEN Ok
       ELSE CASE direction = "Input"  -> [tag |-> "Err", error |-> "IncorrectInputs"]
              [] direction = "Output" -> [tag |-> "Err", error |-> "IncorrectOutputs"]

\* validate's loop with the seen names keyed by kind as well as name.
RECURSIVE validate_loop_names_per_kind(_, _, _, _, _)
validate_loop_names_per_kind(g_nodes, g_edges, index, errors, unique_names) ==
    IF index >= Len(g_nodes) THEN errors
    ELSE LET data == g_nodes[index + 1]
             inserted == <<data.kind, data.name>> \notin unique_names
             e1 == IF ~inserted
                   THEN Append(errors, ValidationError("DuplicateName", data, index))
                   ELSE errors
             r_in == validate_component_connections(g_edges, index, data.kind, "Input")
             e2 == IF r_in.tag = "Err"
                   THEN Append(e1, ValidationError(r_in.error, data, index))
                   ELSE e1
             r_out == validate_component_connections(g_edges, index, data.kind, "Output")
             e3 == IF r_out.tag = "Err"
                   THEN Append(e2, ValidationError(r_out.error, data, index))
                   ELSE e2
         IN validate_loop_names_per_kind(g_nodes, g_edges, index + 1, e3,
                          unique_names \cup {<<data.kind, data.name>>})

\* validate's loop returning at the first failing check.
RECURSIVE validate_loop_fail_fast(_, _, _, _, _)
validate_loop_fail_fast(g_nodes, g_edges, index, errors, unique_names) ==
    IF index >= Len(g_nodes) THEN errors
    ELSE LET data == g_nodes[index + 1]
             inserted == data.name \notin unique_names
             r_in == validate_component_connections(g_edges, index, data.kind, "Input")
             r_out == validate_component_connections(g_edges, index, data.kind, "Output")
         IN IF ~inserted
            THEN Append(errors, ValidationError("DuplicateName", data, index))
            ELSE IF r_in.tag = "Err"
            THEN Append(errors, ValidationError(r_in.error, data, index))
            ELSE IF r_out.tag = "Err"
            THEN Append(errors, ValidationError(r_out.error, data, index))
            ELSE validate_loop_fail_fast(g_nodes, g_edges, index + 1, errors,
                                         unique_names \cup {data.name})

\* validate's loop running the output check before the input check.
RECURSIVE validate_loop_outputs_first(_, _, _, _, _)
validate_loop_outputs_first(g_nodes, g_edges, index, errors, unique_names) ==
    IF index >= Len(g_nodes) THEN errors
    ELSE LET data == g_nodes[index + 1]
             inserted == data.name \notin unique_names
             e1 == IF ~inserted
                   THEN Append(errors, ValidationError("DuplicateName", data, index))
                   ELSE errors
             r_out == validate_component_connections(g_edges, index, data.kind, "Output")
             e2 == IF r_out.tag = "Err"
                   THEN Append(e1, ValidationError(r_out.error, data, index))
                   ELSE e1
             r_in == validate_component_connections(g_edges, index, data.kind, "Input")
             e3 == IF r_in.tag = "Err"
                   THEN Append(e2, ValidationError(r_in.error, data, index))
                   ELSE e2
         IN validate_loop_outputs_first(g_nodes, g_edges, index + 1, e3,
                          unique_names \cup {data.name})

\* validate's loop reporting at most one error per component, an arity
\* error taking the place of a duplicate name.
RECURSIVE validate_loop_one_error_each(_, _, _, _, _)
validate_loop_one_error_each(g_nodes, g_edges, index, errors, unique_names) ==
    IF index >= Len(g_nodes) THEN errors
    ELSE LET data == g_nodes[index + 1]
             inserted == data.name \notin unique_names
             r_in == validate_component_connections(g_edges, index, data.kind, "Input")
             r_out == validate_component_connections(g_edges, index, data.kind, "Output")
             e1 == IF r_in.tag = "Err"
                   THEN Append(errors, ValidationError(r_in.error, data, index))
                   ELSE IF r_out.tag = "Err"
                   THEN Append(errors, ValidationError(r_out.error, data, index))
                   ELSE IF ~inserted
                   THEN Append(errors, ValidationError("DuplicateName", data, index))
                   ELSE errors
         IN validate_loop_one_error_each(g_nodes, g_edges, index + 1, e1,
                                         unique_names \cup {data.name})

\* The body of validate's loop over node_references(), from the component
\* at `index` on, with the errors and the names collected so far.
RECURSIVE validate_loop(_, _, _, _, _)
validate_loop(g_nodes, g_edges, index, errors, unique_names) ==
    IF index >= Len(g_nodes) THEN errors
    ELSE LET data == g_nodes[index + 1]
             \* HashSet::insert returns false when the value was present
             inserted == data.name \notin unique_names
             e1 == IF ~inserted
                   THEN Append(errors, ValidationError("DuplicateName", data, index))
                   ELSE errors
             r_in == validate_component_connections(g_edges, index, data.kind, "Input")
             e2 == IF r_in.tag = "Err"
                   THEN Append(e1, ValidationError(r_in.error, data, index))
                   ELSE e1
             r_out == validate_component_connections(g_edges, index, data.kind, "Output")
             e3 == IF r_out.tag = "Err"
                   THEN Append(e2, ValidationError(r_out.error, data, index))
                   ELSE e2
         IN validate_loop(g_nodes, g_edges, index + 1, e3,
                          unique_names \cup {data.name})

\* validate without the test for an empty error list.
validate_always_err(g_nodes, g_edges) ==
    LET errors == validate_loop(g_nodes, g_edges, 0, <<>>, {})
    IN Err(errors)

\* Circuit::validate
validate(g_nodes, g_edges) ==
    LET errors == validate_loop(g_nodes, g_edges, 0, <<>>, {})
    IN IF Len(errors) = 0 THEN Ok ELSE Err(errors)

\* ------------------------------------------------------------------ state
VARIABLES
    nodes,      \* graph.nodes: the ComponentData in insertion order (NodeIndex i is nodes[i+1])
    edges,      \* graph.edges: the bag of <<from, to>> node indices
    op,         \* the operation that ran last
    ret,        \* the value that operation returned
    issued,     \* history: the handles add_component has returned, in order
    callsFrom,  \* history: per handle, the number of add_connection calls with from = handle
    callsTo     \* history: per handle, the number of add_connection calls with to = handle

vars == <<nodes, edges, op, ret, issued, callsFrom, callsTo>>

\* The handles a caller can hold in the current state.
Handles == 0 .. (Len(nodes) - 1)

\* Circuit::new
Init ==
    /\ nodes = <<>>
    /\ edges = EmptyBag
    /\ op = "new"
    /\ ret = Unit
    /\ issued = <<>>
    /\ callsFrom = [h \in 0 .. (MaxComponents - 1) |-> 0]
    /\ callsTo = [h \in 0 .. (MaxComponents - 1) |-> 0]

\* add_component that puts the new node in front and hands out index 0.
add_component_at_front(name, kind) ==
    /\ Len(nodes) < MaxComponents
    /\ LET index == 0
       IN /\ nodes' = <<ComponentData(kind, name)>> \o nodes
          /\ ret' = Component(index)
          /\ issued' = Append(issued, index)
    /\ op' = "add_component"
    /\ UNCHANGED <<edges, callsFrom, callsTo>>

\* The effect of Circuit::add_component(name, kind) on a circuit of any size.
insert_component(name, kind) ==
    /\ LET index == Len(nodes)      \* Graph::add_node returns the old node count
       IN /\ nodes' = Append(nodes, ComponentData(kind, name))
          /\ ret' = Component(index)
          /\ issued' = Append(issued, index)
    /\ op' = "add_component"
    /\ UNCHANGED <<edges, callsFrom, callsTo>>

\* Circuit::add_component(name, kind), on circuits within the bound
add_component(name, kind) ==
    /\ Len(nodes) < MaxComponents
    /\ insert_component(name, kind)

\* The effect of Circuit::add_connection(from, to) on a circuit of any size.
insert_connection(from, to) ==
    /\ edges' = edges (+) SetToBag({<<from.index, to.index>>})
    /\ callsFrom' = [callsFrom EXCEPT ![from.index] = @ + 1]
    /\ callsTo' = [callsTo EXCEPT ![to.index] = @ + 1]
    /\ op' = "add_connection"
    /\ ret' = Unit
    /\ UNCHANGED <<nodes, issued>>

\* Circuit::add_connection(from, to), on circuits within the bound
add_connection(from, to) ==
    /\ BagCardinality(edges) < MaxConnections
    /\ insert_connection(from, to)

\* validate that consumes the connections it has counted.
Validate_draining ==
    /\ ret' = validate(nodes, edges)
    /\ op' = "validate"
    /\ edges' = EmptyBag
    /\ UNCHANGED <<nodes, issued, callsFrom, callsTo>>

\* A call of Circuit::validate(&self)
Validate ==
    /\ ret' = validate(nodes, edges)
    /\ op' = "validate"
    /\ UNCHANGED <<nodes, edges, issued, callsFrom, callsTo>>

AddComponentStep ==
    \E name \in Names, kind \in ComponentKind : add_component(name, kind)

AddConnectionStep ==
    \E f \in Handles, t \in Handles : add_connection(Component(f), Component(t))

Next ==
    \/ AddComponentStep
    \/ AddConnectionStep
    \/ Validate

Spec == Init /\ [][Next]_vars

\* ------------------------------------------------- reading a validate result
\* The number of entries of the returned error list that validate pushed
\* for the component at handle h with error kind k (0 when it returned Ok).
ErrCount(h, k) ==
    IF ret.tag = "Err"
    THEN Cardinality({i \in DOMAIN ret.errors :
                        ret.errors[i].index = h /\ ret.errors[i].kind = k})
    ELSE 0

\* validate reported error kind k for the component at handle h.
Reports(h, k) == ErrCount(h, k) >= 1

\* The components of a given set of kinds.
OfKind(kinds) == {h \in Handles : nodes[h + 1].kind \in kinds}

\* C1: for every And or Or component, validate reports neither
\* IncorrectInputs nor IncorrectOutputs exactly when the component has at
\* least 2 incoming and at least 1 outgoing connection.
C1_AndOrArity ==
    op = "validate" =>
        \A h \in OfKind({"And", "Or"}) :
            (~Reports(h, "IncorrectInputs") /\ ~Reports(h, "IncorrectOutputs"))
                <=> (callsTo[h] >= 2 /\ callsFrom[h] >= 1)

C3_InputArity ==
    op = "validate" =>
        \A h \in OfKind({"Input"}) :
            /\ Reports(h, "IncorrectInputs") <=> callsTo[h] >= 1
            /\ ~Reports(h, "IncorrectOutputs")

\* C3 witness: a validated Input that is driven and fans out twice.
C3_Witness ==
    /\ op = "validate"
    /\ \E h \in OfKind({"Input"}) :
          /\ callsTo[h] >= 1 /\ callsFrom[h] >= 2
          /\ Reports(h, "IncorrectInputs")

\* C4: for every Output component, validate reports IncorrectOutputs exactly
\* when it has at least one outgoing connection and IncorrectInputs exactly
\* when it has at least two incoming connections.
C4_OutputArity ==
    op = "validate" =>
        \A h \in OfKind({"Output"}) :
            /\ Reports(h, "IncorrectOutputs") <=> callsFrom[h] >= 1
            /\ Reports(h, "IncorrectInputs") <=> callsTo[h] >= 2

\* C4 witness: a validated Output with two drivers and no outgoing edge,
\* flagged for its inputs only.
C4_Witness ==
    /\ op = "validate"
    /\ \E h \in OfKind({"Output"}) :
          /\ callsTo[h] = 2 /\ callsFrom[h] = 0
          /\ Reports(h, "IncorrectInputs") /\ ~Reports(h, "IncorrectOutputs")

\* Some component inserted before h carries exactly the name of h.
EarlierSameName(h) ==
    \E j \in Handles : j < h /\ nodes[j + 1].name = nodes[h + 1].name

\* C5: validate reports DuplicateName for a component exactly when an
\* earlier-inserted component has the same name, whatever the kinds; the
\* first holder of a name is never reported and a later one exactly once.
C5_DuplicateName ==
    op = "validate" =>
        \A h \in Handles :
            ErrCount(h, "DuplicateName") = (IF EarlierSameName(h) THEN 1 ELSE 0)

\* C5 witness: two validated components of different kinds share a name and
\* only the second is reported.
C5_Witness ==
    /\ op = "validate"
    /\ \E g \in Handles, h \in Handles :
          /\ g < h
          /\ nodes[g + 1].name = nodes[h + 1].name
          /\ nodes[g + 1].kind # nodes[h + 1].kind
          /\ ErrCount(h, "DuplicateName") = 1
          /\ ErrCount(g, "DuplicateName") = 0

\* The check behind error kind k fails for the component at handle h.
CheckFails(h, k) ==
    CASE k = "DuplicateName" -> EarlierSameName(h)
      [] k = "IncorrectInputs" ->
            validate_component_connections(edges, h, nodes[h + 1].kind, "Input").tag = "Err"
      [] k = "IncorrectOutputs" ->
            validate_component_connections(edges, h, nodes[h + 1].kind, "Output").tag = "Err"

\* C6: validate never stops at the first failure: the returned list holds
\* exactly one entry per failing (component, check) pair and nothing else,
\* each entry carrying a copy of its component; the result is Ok exactly
\* when no check fails, and an Err list is never empty.
C6_AllErrorsCollected ==
    op = "validate" =>
        /\ \A h \in Handles, k \in ValidationErrorKind :
              ErrCount(h, k) = (IF CheckFails(h, k) THEN 1 ELSE 0)
        /\ ret.tag = "Ok" <=>
              ~ \E h \in Handles, k \in ValidationErrorKind : CheckFails(h, k)
        /\ ret.tag = "Err" =>
              /\ Len(ret.errors) > 0
              /\ \A i \in DOMAIN ret.errors :
                    /\ ret.errors[i].index \in Handles
                    /\ ret.errors[i].kind \in ValidationErrorKind
                    /\ ret.errors[i].component = nodes[ret.errors[i].index + 1]

\* C6 witness: a validated Not with two incoming and two outgoing
\* connections, reported for both directions in one result.
C6_Witness ==
    /\ op = "validate"
    /\ \E h \in OfKind({"Not"}) :
          /\ callsTo[h] = 2 /\ callsFrom[h] = 2
          /\ Reports(h, "IncorrectInputs") /\ Reports(h, "IncorrectOutputs")

\* The position of an error kind among the checks made for one component.
KindRank(k) ==
    CASE k = "DuplicateName" -> 0
      [] k = "IncorrectInputs" -> 1
      [] k = "IncorrectOutputs" -> 2

\* C7: the returned errors are ordered by component insertion order, and for
\* one component DuplicateName precedes IncorrectInputs, which precedes
\* IncorrectOutputs.
C7_ErrorOrder ==
    (op = "validate" /\ ret.tag = "Err") =>
        \A i \in DOMAIN ret.errors, j \in DOMAIN ret.errors :
            i < j =>
                \/ ret.errors[i].index < ret.errors[j].index
                \/ /\ ret.errors[i].index = ret.errors[j].index
                   /\ KindRank(ret.errors[i].kind) < KindRank(ret.errors[j].kind)

\* C7 witness: a result in which an earlier component has an error and a
\* later component has all three.
C7_Witness ==
    /\ op = "validate"
    /\ ret.tag = "Err"
    /\ \E g \in Handles, h \in Handles :
          /\ g < h
          /\ \E k \in ValidationErrorKind : Reports(g, k)
          /\ \A k \in ValidationErrorKind : Reports(h, k)

\* C8: a validate call leaves the components and the connections of the
\* store as they were, whatever it returns.
C8_ValidateReadOnly ==
    [][op' = "validate" => (nodes' = nodes /\ edges' = edges)]_vars

\* C8 witness: validate has returned Err on a store that holds components
\* and connections.
C8_Witness ==
    /\ op = "validate"
    /\ ret.tag = "Err"
    /\ Len(nodes) > 0
    /\ BagCardinality(edges) > 0

\* C9: every add_component returns a handle no earlier call returned and
\* larger than all of them, the handle denotes the component just added, and
\* every handle issued before keeps denoting the same component across any
\* operation.
C9_HandlesFreshAndStable ==
    [][ /\ \A h \in Handles :
              /\ h + 1 \in DOMAIN nodes'
              /\ nodes'[h + 1] = nodes[h + 1]
        /\ Len(issued') > Len(issued) =>
              /\ op' = "add_component"
              /\ ret' = Component(issued'[Len(issued')])
              /\ \A i \in DOMAIN issued : issued[i] < ret'.index
              /\ ret'.index + 1 \in DOMAIN nodes'
              /\ Len(nodes') = Len(nodes) + 1
      ]_vars

\* C9 witness: add_component has just returned its second handle.
C9_Witness ==
    /\ op = "add_component"
    /\ Len(issued) = 2
    /\ ret = Component(issued[2])
    /\ issued[1] # issued[2]

\* C10: count_connections equals, per handle and direction, the number of
\* add_connection calls made with that handle as target (Input) or source
\* (Output), repeated connections and self-loops counted in full.
C10_CountsWithMultiplicity ==
    \A h \in Handles :
        /\ count_connections(edges, h, "Input") = callsTo[h]
        /\ count_connections(edges, h, "Output") = callsFrom[h]

\* C10 witness: the same self-loop was added twice, so one handle has two
\* incoming and two outgoing connections from two calls on one pair.
C10_Witness ==
    \E b \in Handles :
        /\ CopiesIn(<<b, b>>, edges) = 2
        /\ callsTo[b] = 2 /\ callsFrom[b] = 2
        /\ count_connections(edges, b, "Input") = 2
        /\ count_connections(edges, b, "Output") = 2

\* C11: validate called on a freshly created circuit, with no component and
\* no connection inserted, returns Ok.
C11_EmptyCircuitOk ==
    (op = "validate" /\ nodes = <<>> /\ edges = EmptyBag) => ret = Ok

\* C11 witness: validate has run on the circuit Circuit::new made, before
\* any insertion.
C11_Witness ==
    /\ op = "validate"
    /\ nodes = <<>>
    /\ edges = EmptyBag
    /\ issued = <<>>
    /\ ret = Ok

\* ------------------------------------------------------------- stringify
\* stringify_circuit(&circuit) -> Result<String, String>
stringify_circuit(g_nodes, g_edges) ==
    [tag |-> "Ok", value |-> "This is a potato"]

\* A call of stringify_circuit on the circuit
Stringify ==
    /\ ret' = stringify_circuit(nodes, edges)
    /\ op' = "stringify_circuit"
    /\ UNCHANGED <<nodes, edges, issued, callsFrom, callsTo>>

\* tests::not_works: Input A -> Not -> Output B
not_works ==
    [components  |-> << ComponentData("Input", "A"),
                        ComponentData("Output", "B"),
                        ComponentData("Not", "NOT_1") >>,
     connections |-> { <<0, 2>>, <<2, 1>> },
     expected    |-> "B = !A"]

\* tests::and_works: Inputs A, B -> And -> Output C
and_works ==
    [components  |-> << ComponentData("Input", "A"),
                        ComponentData("Input", "B"),
                        ComponentData("Output", "C"),
                        ComponentData("And", "AND_1") >>,
     connections |-> { <<0, 3>>, <<1, 3>>, <<3, 2>> },
     expected    |-> "C = AB"]

\* tests::or_works: Inputs A, B -> Or -> Output C
or_works ==
    [components  |-> << ComponentData("Input", "A"),
                        ComponentData("Input", "B"),
                        ComponentData("Output", "C"),
                        ComponentData("Or", "OR_1") >>,
     connections |-> { <<0, 3>>, <<1, 3>>, <<3, 2>> },
     expected    |-> "C = A + B"]

\* The circuits the tests of stringify.rs build.
StringifyTests == {not_works, and_works, or_works}

\* tests::not_extra_input_fails (mod.rs): Inputs A, B -> Not -> Output C
not_extra_input_fails ==
    [components  |-> << ComponentData("Input", "A"),
                        ComponentData("Input", "B"),
                        ComponentData("Output", "C"),
                        ComponentData("Not", "NOT_1") >>,
     connections |-> { <<0, 3>>, <<1, 3>>, <<3, 2>> }]

\* tests::reports_multiple_errors (mod.rs): Inputs A, B -> Not -> Outputs C, D
reports_multiple_errors ==
    [components  |-> << ComponentData("Input", "A"),
                        ComponentData("Input", "B"),
                        ComponentData("Output", "C"),
                        ComponentData("Output", "D"),
                        ComponentData("Not", "NOT_1") >>,
     connections |-> { <<0, 4>>, <<1, 4>>, <<4, 3>>, <<4, 2>> }]

\* tests::test_duplicate_name (mod.rs): Input A -> Output A
test_duplicate_name ==
    [components  |-> << ComponentData("Input", "A"),
                        ComponentData("Output", "A") >>,
     connections |-> { <<0, 1>> }]

\* The circuits the tests of the validator build.
ValidationTests == {not_extra_input_fails, reports_multiple_errors, test_duplicate_name}

\* The components and connections of every test circuit.
TestCircuits ==
    {[components |-> t.components, connections |-> t.connections] : t \in StringifyTests}
        \cup ValidationTests

\* The handles those tests hold.
TestHandles == UNION {0 .. (Len(t.components) - 1) : t \in TestCircuits}

\* The circuit so far is the beginning of what test t builds.
BuildsTowards(t) ==
    /\ Len(nodes) <= Len(t.components)
    /\ nodes = SubSeq(t.components, 1, Len(nodes))
    /\ \A e \in BagToSet(edges) : e \in t.connections /\ CopiesIn(e, edges) = 1

\* The circuit is exactly the one test t builds.
IsCircuitOf(t) ==
    /\ nodes = t.components
    /\ edges = SetToBag(t.connections)

\* Circuit::new at the start of a test
InitTests ==
    /\ nodes = <<>>
    /\ edges = EmptyBag
    /\ op = "new"
    /\ ret = Unit
    /\ issued = <<>>
    /\ callsFrom = [h \in TestHandles |-> 0]
    /\ callsTo = [h \in TestHandles |-> 0]

\* A test adds its next component.
TestAddComponent ==
    \E t \in TestCircuits :
        /\ BuildsTowards(t)
        /\ Len(nodes) < Len(t.components)
        /\ LET data == t.components[Len(nodes) + 1]
           IN insert_component(data.name, data.kind)

\* A test adds one of its connections, between components it already holds.
TestAddConnection ==
    \E t \in TestCircuits :
        /\ BuildsTowards(t)
        /\ \E e \in t.connections :
              /\ e[1] \in Handles /\ e[2] \in Handles
              /\ CopiesIn(e, edges) = 0
              /\ insert_connection(Component(e[1]), Component(e[2]))

NextTests ==
    \/ TestAddComponent
    \/ TestAddConnection
    \/ Validate
    \/ Stringify

\* The tests of stringify.rs and of the validator, their calls in any order
\* the handles allow, with validate and stringify_circuit called at any point.
SpecTests == InitTests /\ [][NextTests]_vars

\* C12: stringify_circuit returns the canonical boolean expression of the
\* circuit's output: "B = !A" for Input A -> Not -> Output B, "C = AB" for
\* Inputs A, B -> And -> Output C, "C = A + B" for Inputs A, B -> Or ->
\* Output C.
C12_StringifyCanonical ==
    op = "stringify_circuit" =>
        \A t \in StringifyTests :
            IsCircuitOf(t) => ret = [tag |-> "Ok", value |-> t.expected]

\* ------------------------------------------------ circuits with equal counts
\* The connections of a bag listed one by one, each copy on its own.
RECURSIVE EdgeSeq(_)
EdgeSeq(bag) ==
    IF bag = EmptyBag THEN <<>>
    ELSE LET e == CHOOSE x \in BagToSet(bag) : TRUE
         IN <<e>> \o EdgeSeq(bag (-) SetToBag({e}))

\* The bag of the entries of a sequence.
RECURSIVE SeqToBag(_)
SeqToBag(s) ==
    IF s = <<>> THEN EmptyBag
    ELSE SetToBag({Head(s)}) (+) SeqToBag(Tail(s))

\* The permutations of 1..n.
Perms(n) == {p \in [1 .. n -> 1 .. n] : \A i, j \in 1 .. n : p[i] = p[j] => i = j}

\* The connections s with their targets exchanged as p says: every source
\* keeps its number of outgoing and every target its number of incoming
\* connections.  Every bag of connections with the same per-component counts
\* as s arises this way, since both have the same sources and the same
\* targets, each with its multiplicity.
Rewired(s, p) == SeqToBag([i \in 1 .. Len(s) |-> <<s[i][1], s[p[i]][2]>>])

\* The component at h has no arity error in the returned result.
NoArityError(h) ==
    ~Reports(h, "IncorrectInputs") /\ ~Reports(h, "IncorrectOutputs")

\* C13: the result of validate depends only on the sequence of (kind, name,
\* incoming count, outgoing count) of the components: a circuit with the same
\* components and the same counts, its connections between other endpoints,
\* gets the same result.  A Not whose only connection is a self-loop and two
\* Not components wired to each other in a loop get no arity error.
C13_OnlyCountsMatter ==
    op = "validate" =>
        /\ LET s == EdgeSeq(edges)
           IN \A p \in Perms(Len(s)) : validate(nodes, Rewired(s, p)) = ret
        /\ \A h \in OfKind({"Not"}) :
              (CopiesIn(<<h, h>>, edges) = 1 /\ callsTo[h] = 1 /\ callsFrom[h] = 1)
                  => NoArityError(h)
        /\ \A g \in OfKind({"Not"}), h \in OfKind({"Not"}) :
              (g # h /\ edges = SetToBag({<<g, h>>, <<h, g>>}))
                  => (NoArityError(g) /\ NoArityError(h))

\* C13 witness: two Not components with different names wired to each other
\* in a loop were validated without any error; exchanging the targets of the
\* two connections gives a different circuit, two self-loops.
C13_Witness ==
    /\ op = "validate"
    /\ ret = Ok
    /\ \E g \in OfKind({"Not"}), h \in OfKind({"Not"}) :
          /\ g # h
          /\ edges = SetToBag({<<g, h>>, <<h, g>>})
          /\ \E p \in Perms(2) :
                Rewired(EdgeSeq(edges), p) = SetToBag({<<g, g>>, <<h, h>>})

\* A validate call has just reported DuplicateName for the component at h.
DuplicateNameReported(h) ==
    /\ op = "validate"
    /\ h \in Handles
    /\ Reports(h, "DuplicateName")

====
